---- MODULE Spec2Model ----
(***************************************************************************)
(* Model of assets/javascript/sw-init.js: the service-worker update,       *)
(* install and telemetry-lookup flow of the blog's page initialisation.    *)
(*                                                                         *)
(* JavaScript values are records [kind, n, chars]; strings are sequences   *)
(* of one-character strings so that split('.'), Number() and template      *)
(* strings are computed as the code computes them.  Every call the script  *)
(* makes on a collaborator (ga, messages.add, wb.messageSW, loadPage,      *)
(* location.reload) is appended to `log` in program order.                 *)
(***************************************************************************)
EXTENDS Integers, Sequences, FiniteSets, TLC

(* ------------------------------ bounds -------------------------------- *)
MaxUpdates == 2      \* UPDATE_AVAILABLE messages delivered to the page
MaxMajor == 1        \* largest major version the worker reports
MaxNow == 1          \* reading of Date.now() when a message is handled
MaxInstalled == 2    \* 'installed' lifecycle events dispatched
MaxResources == 2    \* resource-timing entries of the page
MaxNavReports == 2   \* NAVIGATION_REPORT messages delivered to the page
MaxCacheUpdates == 1 \* CACHE_UPDATED messages delivered to the page

(* --------------------------- JavaScript values ------------------------ *)
Undefined == [kind |-> "undefined", n |-> 0, chars |-> <<>>]
NaN == [kind |-> "NaN", n |-> 0, chars |-> <<>>]
Num(n) == [kind |-> "number", n |-> n, chars |-> <<>>]
Str(s) == [kind |-> "string", n |-> 0, chars |-> s]
Bool(b) == [kind |-> "boolean", n |-> IF b THEN 1 ELSE 0, chars |-> <<>>]

\* ToBoolean: undefined, NaN, 0, '' and false are falsy.
Truthy(v) ==
  CASE v.kind = "number" -> v.n # 0
    [] v.kind = "string" -> v.chars # <<>>
    [] v.kind = "boolean" -> v.n = 1
    [] OTHER -> FALSE

\* a || b
Or(a, b) == IF Truthy(a) THEN a ELSE b

\* a <= b on numbers; any comparison with NaN or undefined is false.
LessEq(a, b) == a.kind = "number" /\ b.kind = "number" /\ a.n <= b.n

Digits == <<"0", "1", "2", "3", "4", "5", "6", "7", "8", "9">>

DigitVal(c) == (CHOOSE i \in 1..10 : Digits[i] = c) - 1

IsDigit(c) == \E i \in 1..10 : Digits[i] = c

RECURSIVE DecimalValue(_)
DecimalValue(s) ==
  IF s = <<>> THEN 0
  ELSE 10 * DecimalValue(SubSeq(s, 1, Len(s) - 1)) + DigitVal(s[Len(s)])

\* Number(string) over the alphabet of the model (digits, '.', letters):
\* '' is 0, a run of digits is its decimal value, anything else is NaN.
ToNumber(s) ==
  IF s = <<>> THEN Num(0)
  ELSE IF \A i \in 1..Len(s) : IsDigit(s[i]) THEN Num(DecimalValue(s))
  ELSE NaN

\* s.split('.')[0]: the characters before the first '.', all of s if none.
FirstSegment(s) ==
  IF \E i \in 1..Len(s) : s[i] = "."
  THEN SubSeq(s, 1, (CHOOSE i \in 1..Len(s) :
                       s[i] = "." /\ \A j \in 1..(i - 1) : s[j] # ".") - 1)
  ELSE s

RECURSIVE DecimalChars(_)
DecimalChars(n) ==
  IF n < 10 THEN <<Digits[n + 1]>>
  ELSE DecimalChars(n \div 10) \o <<Digits[(n % 10) + 1]>>

\* String(value) for the values the script converts.
ToStringChars(v) ==
  CASE v.kind = "string" -> v.chars
    [] v.kind = "boolean" ->
         IF v.n = 1 THEN <<"t", "r", "u", "e">> ELSE <<"f", "a", "l", "s", "e">>
    [] v.kind = "number" -> DecimalChars(v.n)
    [] v.kind = "NaN" -> <<"N", "a", "N">>
    [] OTHER -> <<"u", "n", "d", "e", "f", "i", "n", "e", "d">>

NULL_VALUE == Str(<<"(", "n", "o", "t", " ", "s", "e", "t", ")">>)

(* ----------------------- worker payloads (inputs) --------------------- *)
\* The version string 'M.1.0'.
VersionOf(m) == Str(DecimalChars(m) \o <<".", "1", ".", "0">>)

NoObject == [kind |-> "undefined", version |-> Undefined, buildTime |-> Undefined]

Metadata(version, buildTime) ==
  [kind |-> "object", version |-> version, buildTime |-> buildTime]

NoPayload == [kind |-> "undefined", oldMetadata |-> NoObject, newMetadata |-> NoObject]

Payload(old, new) == [kind |-> "object", oldMetadata |-> old, newMetadata |-> new]

\* Date.now() when a message is handled.
Nows == {MaxNow}

\* Payloads as the worker of this version of the site sends them: the
\* lowest and the highest major version on either side, and a two-digit
\* major version built at the time the message is handled.
WellFormedPayloads ==
  { Payload(Metadata(VersionOf(o), Num(0)), Metadata(VersionOf(n), Num(0))) :
      o \in {0, MaxMajor}, n \in {0, MaxMajor} }
    \cup { Payload(Metadata(VersionOf(9), Num(0)),
                   Metadata(Str(<<"1", "0", ".", "0">>), Num(MaxNow))) }

\* Payloads with a version string that has no numeric major version, or
\* none at all; the first also lacks the buildTime.
OddVersionPayloads ==
  { Payload(Metadata(Str(<<>>), Num(0)), Metadata(VersionOf(MaxMajor), Undefined)),
    Payload(Metadata(Str(<<"a", "b", "c">>), Num(0)), Metadata(VersionOf(MaxMajor), Num(0))),
    Payload(Metadata(VersionOf(MaxMajor), Num(0)), Metadata(Str(<<"a", "b", "c">>), Num(0))) }

\* Payloads of another format: absent, a metadata object missing, a version
\* that is absent or is not a string.
MalformedPayloads ==
  { NoPayload,
    Payload(NoObject, Metadata(VersionOf(MaxMajor), Num(0))),
    Payload(Metadata(VersionOf(0), Num(0)), NoObject),
    Payload(Metadata(VersionOf(0), Num(0)), Metadata(Undefined, Num(0))),
    Payload(Metadata(VersionOf(0), Num(0)), Metadata(Num(5), Num(0))) }

UpdatePayloads == WellFormedPayloads \cup OddVersionPayloads \cup MalformedPayloads

(* --------------------------- processMetadata -------------------------- *)
ErrorResult == [error |-> TRUE,
                oldVersion |-> Undefined, oldMajorVersion |-> Undefined,
                newVersion |-> Undefined, newMajorVersion |-> Undefined,
                timeSinceNewVersionDeployed |-> Undefined]

\* Date.now() - buildTime
Elapsed(now, buildTime) ==
  IF buildTime.kind = "number" THEN Num(now - buildTime.n) ELSE NaN

\* Variant: a missing metadata object reads as an empty one instead of
\* raising the error that the catch block returns.
processMetadata_defaults(payload, now) ==
  LET oldVersion == Or(payload.oldMetadata.version, Str(<<>>))
      newVersion == Or(payload.newMetadata.version, Str(<<>>))
  IN IF oldVersion.kind # "string" THEN ErrorResult
     ELSE IF newVersion.kind # "string" THEN ErrorResult
     ELSE [error |-> FALSE,
           oldVersion |-> oldVersion,
           oldMajorVersion |-> ToNumber(FirstSegment(oldVersion.chars)),
           newVersion |-> newVersion,
           newMajorVersion |-> ToNumber(FirstSegment(newVersion.chars)),
           timeSinceNewVersionDeployed |-> Elapsed(now, payload.newMetadata.buildTime)]

\* The result object; `error` tells which of the two shapes it has, and the
\* fields of the other shape read as undefined, as destructuring reads them.
processMetadata(payload, now) ==
  LET p == IF payload.kind = "undefined"
           THEN [kind |-> "object", oldMetadata |-> NoObject, newMetadata |-> NoObject]
           ELSE payload
      oldMetadata == p.oldMetadata
      newMetadata == p.newMetadata
      oldVersion == Or(oldMetadata.version, Str(<<>>))
      newVersion == Or(newMetadata.version, Str(<<>>))
  IN IF oldMetadata.kind # "object" THEN ErrorResult
     ELSE IF newMetadata.kind # "object" THEN ErrorResult
     ELSE IF oldVersion.kind # "string" THEN ErrorResult
     ELSE IF newVersion.kind # "string" THEN ErrorResult
     ELSE [error |-> FALSE,
           oldVersion |-> oldVersion,
           oldMajorVersion |-> ToNumber(FirstSegment(oldVersion.chars)),
           newVersion |-> newVersion,
           newMajorVersion |-> ToNumber(FirstSegment(newVersion.chars)),
           timeSinceNewVersionDeployed |-> Elapsed(now, newMetadata.buildTime)]

(* -------------------------------- state ------------------------------- *)
VARIABLES
  initialSWState,  \* sw-state: 'controlled' or not, fixed at page load
  pc,              \* position of init(): idle, registering, registered, failed
  listeners,       \* listeners attached to the Workbox instance
  log,             \* calls made on collaborators, in program order
  inbox,           \* payloads handed to processMetadata so far, with its results
  notes,           \* NotificationRequests handed to messages.add
  reloadTimers,    \* pending setTimeout(() => location.reload(), 0) callbacks
  unloaded,        \* the page has been reloaded; this script instance is gone
  siteVersion,     \* the promise of setSiteVersionOrTimeout and its racers
  cacheHit,        \* the promise of setNavigationCacheOrTimeout and its racers
  navReports,      \* NAVIGATION_REPORT messages delivered so far
  installs,        \* 'installed' lifecycle events dispatched so far
  cacheUpdates,    \* CACHE_UPDATED messages delivered so far
  href,            \* location.href
  resources        \* performance.getEntriesByType('resource'), by name

vars == <<initialSWState, pc, listeners, log, inbox, notes, reloadTimers,
          unloaded, siteVersion, cacheHit, navReports, installs,
          cacheUpdates, href, resources>>

updateVars == <<inbox, notes, reloadTimers, unloaded>>
lookupVars == <<siteVersion, cacheHit, navReports>>
installVars == <<installs, cacheUpdates>>
pageVars == <<initialSWState, href, resources>>

SWStates == {"controlled", "uncontrolled"}

(* ------------------------- addSWUpdateListener ------------------------ *)
\* Variant: the old version is written into the label as it is.
EventLabel_noFallback(r) ==
  IF Truthy(r.newVersion)
  THEN Str(ToStringChars(r.oldVersion)
             \o <<" ", "=", ">", " ">> \o ToStringChars(r.newVersion))
  ELSE NULL_VALUE

\* eventLabel: newVersion ? `${oldVersion || NULL_VALUE} => ${newVersion}`
\*                        : NULL_VALUE
EventLabel(r) ==
  IF Truthy(r.newVersion)
  THEN Str(ToStringChars(Or(r.oldVersion, NULL_VALUE))
             \o <<" ", "=", ">", " ">> \o ToStringChars(r.newVersion))
  ELSE NULL_VALUE

\* The ga('send', 'event', ...) call of the sendEvent closure of message k.
sendEvent(k, r, eventCategory, eventAction) ==
  [call |-> "ga-send", msg |-> k,
   eventCategory |-> eventCategory, eventAction |-> eventAction,
   eventValue |-> Or(r.timeSinceNewVersionDeployed, Num(0)),
   eventLabel |-> EventLabel(r)]

\* newMajorVersion && newMajorVersion <= oldMajorVersion
NoMajorChange(r) ==
  Truthy(r.newMajorVersion) /\ LessEq(r.newMajorVersion, r.oldMajorVersion)

\* Variant: the check of the initial worker state is left out.
shouldNotifyUser_ignoresState(r, state) == ~NoMajorChange(r)

\* Variant: notify only on a proven major version increase.
shouldNotifyUser_onlyOnMajor(r, state) ==
  /\ state = "controlled"
  /\ r.newMajorVersion.kind = "number"
  /\ r.oldMajorVersion.kind = "number"
  /\ r.newMajorVersion.n > r.oldMajorVersion.n

shouldNotifyUser(r, state) ==
  LET afterDefault == TRUE
      afterVersions == IF NoMajorChange(r) THEN FALSE ELSE afterDefault
      afterState == IF state # "controlled" THEN FALSE ELSE afterVersions
  IN afterState

\* The call messages.add({body, action, onAction, onDismiss}) for message k;
\* `result` is what the closures onAction and onDismiss have captured.
MessagesAddCall(k, r) ==
  [call |-> "messages.add", msg |-> k, action |-> "Reload", result |-> r]

\* Variant: the prompt is shown before the update is reported.
UpdateHandlerCalls_notifyFirst(k, r, state) ==
  (IF shouldNotifyUser(r, state)
   THEN <<MessagesAddCall(k, r), sendEvent(k, r, "Messages", "sw-update-notify")>>
   ELSE <<>>)
    \o <<sendEvent(k, r, "Service Worker", "sw-update")>>

\* Variant: the prompt is shown without the 'sw-update-notify' event.
UpdateHandlerCalls_silentPrompt(k, r, state) ==
  <<sendEvent(k, r, "Service Worker", "sw-update")>>
    \o (IF shouldNotifyUser(r, state) THEN <<MessagesAddCall(k, r)>> ELSE <<>>)

\* Variant: the prompt is handed to the presenter twice.
UpdateHandlerCalls_promptTwice(k, r, state) ==
  <<sendEvent(k, r, "Service Worker", "sw-update")>>
    \o (IF shouldNotifyUser(r, state)
        THEN <<MessagesAddCall(k, r), MessagesAddCall(k, r),
               sendEvent(k, r, "Messages", "sw-update-notify")>>
        ELSE <<>>)

\* The calls the UPDATE_AVAILABLE branch of the listener makes, in order.
UpdateHandlerCalls(k, r, state) ==
  <<sendEvent(k, r, "Service Worker", "sw-update")>>
    \o (IF shouldNotifyUser(r, state)
        THEN <<MessagesAddCall(k, r), sendEvent(k, r, "Messages", "sw-update-notify")>>
        ELSE <<>>)

\* The Notification Presenter keeps every request it is handed until the
\* user acts on it or dismisses it; a request shown while another is live
\* is a second, independent prompt.
MessagesAdd(ns, c) ==
  Append(ns, [msg |-> c.msg, state |-> "live", result |-> c.result])

RECURSIVE Present(_, _)
Present(ns, calls) ==
  IF calls = <<>> THEN ns
  ELSE Present(IF Head(calls).call = "messages.add"
               THEN MessagesAdd(ns, Head(calls)) ELSE ns,
               Tail(calls))

\* The 'message' listener of addSWUpdateListener on an UPDATE_AVAILABLE
\* message with the given payload, Date.now() reading `now`.
ReceiveUpdateAvailable(payload, now) ==
  /\ ~unloaded
  /\ "update-available" \in listeners
  /\ Len(inbox) < MaxUpdates
  /\ LET k == Len(inbox) + 1
         r == processMetadata(payload, now)
         calls == UpdateHandlerCalls(k, r, initialSWState)
     IN /\ inbox' = Append(inbox, [payload |-> payload, now |-> now, result |-> r])
        /\ log' = log \o calls
        /\ notes' = Present(notes, calls)
  /\ UNCHANGED <<pc, listeners, reloadTimers, unloaded>>
  /\ UNCHANGED <<lookupVars, installVars, pageVars>>

\* The user presses the notification's action: the presenter discards the
\* request and calls onAction.
UserAction(i) ==
  /\ ~unloaded
  /\ i \in 1..Len(notes)
  /\ notes[i].state = "live"
  /\ notes' = [notes EXCEPT ![i].state = "acted"]
  /\ log' = Append(log, sendEvent(notes[i].msg, notes[i].result,
                                  "Messages", "sw-update-reload"))
  /\ reloadTimers' = reloadTimers + 1
  /\ UNCHANGED <<pc, listeners, inbox, unloaded>>
  /\ UNCHANGED <<lookupVars, installVars, pageVars>>

\* The user dismisses the notification: the presenter discards the request
\* and calls onDismiss.
UserDismiss(i) ==
  /\ ~unloaded
  /\ i \in 1..Len(notes)
  /\ notes[i].state = "live"
  /\ notes' = [notes EXCEPT ![i].state = "dismissed"]
  /\ log' = Append(log, sendEvent(notes[i].msg, notes[i].result,
                                  "Messages", "sw-update-dismiss"))
  /\ UNCHANGED <<pc, listeners, inbox, reloadTimers, unloaded>>
  /\ UNCHANGED <<lookupVars, installVars, pageVars>>

\* The 0 ms timer set by onAction fires: location.reload().
ReloadFires ==
  /\ ~unloaded
  /\ reloadTimers > 0
  /\ reloadTimers' = reloadTimers - 1
  /\ unloaded' = TRUE
  /\ log' = Append(log, [call |-> "location.reload"])
  /\ UNCHANGED <<pc, listeners, inbox, notes>>
  /\ UNCHANGED <<lookupVars, installVars, pageVars>>

(* ------------------- init and the two timed lookups ------------------- *)
ListenersOfInit == {"installed", "cache-updated", "update-available"}

GaSet(dimension, value) ==
  [call |-> "ga-set", dimension |-> dimension, value |-> value]

MessageSW(type, urlsToCache) ==
  [call |-> "wb.messageSW", type |-> type, urlsToCache |-> urlsToCache]

\* init() up to `await wb.register()`: the three listeners are attached and
\* registration is started.
InitStart ==
  /\ ~unloaded
  /\ pc = "idle"
  /\ pc' = "registering"
  /\ listeners' = listeners \cup ListenersOfInit
  /\ UNCHANGED <<log, updateVars, lookupVars, installVars, pageVars>>

\* Variant: the 3000 ms timer is not armed.
StartSiteVersion_noTimer(state) ==
  [resolved |-> state # "controlled",
   request |-> "pending",
   timer |-> "fired",
   events |-> <<>>]

\* The executor of setSiteVersionOrTimeout's promise: resolve at once on an
\* uncontrolled page, then (in every case) ask the worker and arm the timer.
\* `events` keeps what arrived for the promise since, in order of arrival.
StartSiteVersion(state) ==
  [resolved |-> state # "controlled",
   request |-> "pending",
   timer |-> "pending",
   events |-> <<>>]

\* The executor of setNavigationCacheOrTimeout's promise.
StartCacheHit(state) ==
  [resolved |-> state # "controlled",
   timer |-> "pending",
   events |-> <<>>]

\* Variant: every resolve() call runs the continuation.
ResolveCalls_overwrite(promise, dimension, value) == <<GaSet(dimension, value)>>

\* resolve(value) followed by the function's continuation: a promise that
\* is already resolved ignores the call, otherwise ga('set', ...) runs.
ResolveCalls(promise, dimension, value) ==
  IF promise.resolved THEN <<>> ELSE <<GaSet(dimension, value)>>

\* What setSiteVersionOrTimeout and setNavigationCacheOrTimeout call before
\* init() returns and in the microtasks that follow, in order.
StartLookupCalls(state) ==
  <<MessageSW("GET_METADATA", <<>>)>>
    \o (IF state # "controlled"
        THEN <<GaSet("SITE_VERSION", NULL_VALUE),
               GaSet("CACHE_HIT", Str(ToStringChars(Bool(FALSE))))>>
        ELSE <<>>)

\* wb.register() resolves and init() runs to its end: both lookups are
\* started, and the continuations of the promises already resolved run as
\* microtasks before any other task.
RegisterResolves ==
  /\ ~unloaded
  /\ pc = "registering"
  /\ pc' = "registered"
  /\ siteVersion' = StartSiteVersion(initialSWState)
  /\ cacheHit' = StartCacheHit(initialSWState)
  /\ listeners' = listeners \cup {"navigation-report"}
  /\ log' = log \o StartLookupCalls(initialSWState)
  /\ UNCHANGED <<navReports, updateVars, installVars, pageVars>>

\* wb.register() rejects: init() ends there and neither lookup is started.
RegisterRejects ==
  /\ ~unloaded
  /\ pc = "registering"
  /\ pc' = "failed"
  /\ UNCHANGED <<listeners, log, updateVars, lookupVars, installVars, pageVars>>

\* Versions the worker answers GET_METADATA with.
ReplyVersions == { VersionOf(m) : m \in 0..MaxMajor }

\* The worker's reply {version} to GET_METADATA arrives.
MetadataReply(version) ==
  /\ ~unloaded
  /\ pc = "registered"
  /\ siteVersion.request = "pending"
  /\ siteVersion' = [siteVersion EXCEPT !.request = "replied",
                                        !.resolved = TRUE,
                                        !.events = Append(@, version)]
  /\ log' = log \o ResolveCalls(siteVersion, "SITE_VERSION", version)
  /\ UNCHANGED <<pc, listeners, cacheHit, navReports>>
  /\ UNCHANGED <<updateVars, installVars, pageVars>>

\* The 3000 ms timer of setSiteVersionOrTimeout fires.
SiteVersionTimeout ==
  /\ ~unloaded
  /\ pc = "registered"
  /\ siteVersion.timer = "pending"
  /\ siteVersion' = [siteVersion EXCEPT !.timer = "fired",
                                        !.resolved = TRUE,
                                        !.events = Append(@, Undefined)]
  /\ log' = log \o ResolveCalls(siteVersion, "SITE_VERSION", NULL_VALUE)
  /\ UNCHANGED <<pc, listeners, cacheHit, navReports>>
  /\ UNCHANGED <<updateVars, installVars, pageVars>>

\* A NAVIGATION_REPORT message with payload {cacheHit: hit} is dispatched.
\* Without the listener of setNavigationCacheOrTimeout nobody observes it.
NavigationReport(hit) ==
  /\ ~unloaded
  /\ pc \in {"registering", "registered"}
  /\ Len(navReports) < MaxNavReports
  /\ navReports' = Append(navReports, [cacheHit |-> hit, during |-> pc])
  /\ IF "navigation-report" \in listeners
     THEN /\ cacheHit' = [cacheHit EXCEPT !.resolved = TRUE,
                                          !.events = Append(@, Bool(hit))]
          /\ log' = log \o ResolveCalls(cacheHit, "CACHE_HIT",
                                        Str(ToStringChars(Bool(hit))))
     ELSE UNCHANGED <<cacheHit, log>>
  /\ UNCHANGED <<pc, listeners, siteVersion>>
  /\ UNCHANGED <<updateVars, installVars, pageVars>>

\* The 3000 ms timer of setNavigationCacheOrTimeout fires.
CacheHitTimeout ==
  /\ ~unloaded
  /\ pc = "registered"
  /\ cacheHit.timer = "pending"
  /\ cacheHit' = [cacheHit EXCEPT !.timer = "fired",
                                  !.resolved = TRUE,
                                  !.events = Append(@, NULL_VALUE)]
  /\ log' = log \o ResolveCalls(cacheHit, "CACHE_HIT",
                                Str(ToStringChars(NULL_VALUE)))
  /\ UNCHANGED <<pc, listeners, siteVersion, navReports>>
  /\ UNCHANGED <<updateVars, installVars, pageVars>>

(* ------------- addFirstInstalledListener, addCacheUpdateListener ------ *)
\* URLs are sequences of string pieces; includes(piece) looks for a piece.
PageHref == <<"https://philipwalton.com", "/">>

AnalyticsScript == "google-analytics.com/analytics.js"

ResourceNames ==
  { <<"https://philipwalton.com", "/static/main.js">>,
    <<"https://www.", AnalyticsScript>> }

ResourceLists ==
  UNION { [1..n -> ResourceNames] : n \in 0..MaxResources }

Includes(url, piece) == \E i \in 1..Len(url) : url[i] = piece

\* The entry of urlsToCache built for one resource-timing entry.
CacheEntry(url) ==
  IF Includes(url, AnalyticsScript)
  THEN [url |-> url, mode |-> "no-cors"]
  ELSE [url |-> url, mode |-> "default"]

urlsToCache(location, entries) ==
  <<[url |-> location, mode |-> "default"]>>
    \o [i \in 1..Len(entries) |-> CacheEntry(entries[i])]

\* Variant: the isUpdate test is left out.
InstalledCalls_always(isUpdate, location, entries) ==
  <<MessageSW("CACHE_URLS", urlsToCache(location, entries))>>

\* The calls the 'installed' listener makes.
InstalledCalls(isUpdate, location, entries) ==
  IF ~isUpdate
  THEN <<MessageSW("CACHE_URLS", urlsToCache(location, entries))>>
  ELSE <<>>

\* The 'installed' listener of addFirstInstalledListener.
Installed(isUpdate) ==
  /\ ~unloaded
  /\ "installed" \in listeners
  /\ pc \in {"registering", "registered"}
  /\ Len(installs) < MaxInstalled
  /\ installs' = Append(installs, isUpdate)
  /\ log' = log \o InstalledCalls(isUpdate, href, resources)
  /\ UNCHANGED <<pc, listeners, cacheUpdates>>
  /\ UNCHANGED <<updateVars, lookupVars, pageVars>>

\* The 'message' listener of addCacheUpdateListener on a CACHE_UPDATED
\* message with payload {updatedURL}.
CacheUpdated(updatedURL) ==
  /\ ~unloaded
  /\ "cache-updated" \in listeners
  /\ pc \in {"registering", "registered"}
  /\ cacheUpdates < MaxCacheUpdates
  /\ cacheUpdates' = cacheUpdates + 1
  /\ log' = log \o <<[call |-> "loadPage", url |-> updatedURL],
                     [call |-> "ga-send", msg |-> 0,
                      eventCategory |-> "Service Worker",
                      eventAction |-> "cache-update",
                      eventValue |-> Undefined,
                      eventLabel |-> updatedURL]>>
  /\ UNCHANGED <<pc, listeners, installs>>
  /\ UNCHANGED <<updateVars, lookupVars, pageVars>>

(* ---------------------------- specifications -------------------------- *)
Init ==
  /\ initialSWState \in SWStates
  /\ pc = "idle"
  /\ listeners = {}
  /\ log = <<>>
  /\ inbox = <<>>
  /\ notes = <<>>
  /\ reloadTimers = 0
  /\ unloaded = FALSE
  /\ siteVersion = [resolved |-> FALSE, request |-> "unsent",
                    timer |-> "unset", events |-> <<>>]
  /\ cacheHit = [resolved |-> FALSE, timer |-> "unset", events |-> <<>>]
  /\ navReports = <<>>
  /\ installs = <<>>
  /\ cacheUpdates = 0
  /\ href = PageHref
  /\ resources \in ResourceLists

\* A page on which the resource-timing buffer is empty.
InitBare == Init /\ resources = <<>>

UpdateStep ==
  \/ \E payload \in UpdatePayloads, now \in Nows : ReceiveUpdateAvailable(payload, now)
  \/ \E i \in 1..MaxUpdates : UserAction(i)
  \/ \E i \in 1..MaxUpdates : UserDismiss(i)
  \/ ReloadFires

LookupStep ==
  \/ RegisterResolves
  \/ RegisterRejects
  \/ \E version \in ReplyVersions : MetadataReply(version)
  \/ SiteVersionTimeout
  \/ \E hit \in BOOLEAN : NavigationReport(hit)
  \/ CacheHitTimeout

InstallStep ==
  \/ \E isUpdate \in BOOLEAN : Installed(isUpdate)
  \/ \E url \in {PageHref} : CacheUpdated(url)

\* The update flow: init() has attached the listeners, the worker announces
\* new versions, the user answers the prompts.
NextUpdate == InitStart \/ UpdateStep

SpecUpdate == InitBare /\ [][NextUpdate]_vars

\* Registration and the two timed lookups.
NextLookup == InitStart \/ LookupStep

SpecLookup == InitBare /\ [][NextLookup]_vars

\* Registration, the install lifecycle event and cache updates.
NextInstall == InitStart \/ RegisterResolves \/ RegisterRejects \/ InstallStep

SpecInstall == Init /\ [][NextInstall]_vars

\* The whole script.
Next == InitStart \/ UpdateStep \/ LookupStep \/ InstallStep

Spec == Init /\ [][Next]_vars

TypeOK ==
  /\ initialSWState \in SWStates
  /\ pc \in {"idle", "registering", "registered", "failed"}
  /\ listeners \subseteq ListenersOfInit \cup {"navigation-report"}
  /\ Len(inbox) <= MaxUpdates
  /\ Len(notes) <= Len(inbox)
  /\ reloadTimers \in 0..MaxUpdates
  /\ unloaded \in BOOLEAN
  /\ Len(navReports) <= MaxNavReports
  /\ Len(installs) <= MaxInstalled
  /\ cacheUpdates \in 0..MaxCacheUpdates

(* ------------------------------ properties ---------------------------- *)
Messages == 1..Len(inbox)

Controlled == initialSWState = "controlled"

\* Positions in the log of the events of message k with the given action.
EventsOf(k, action) ==
  { i \in 1..Len(log) : /\ log[i].call = "ga-send"
                        /\ log[i].msg = k
                        /\ log[i].eventAction = action }

\* Positions in the log of the messages.add calls of message k.
AddsOf(k) ==
  { i \in 1..Len(log) : log[i].call = "messages.add" /\ log[i].msg = k }

\* Positions in the log of the wb.messageSW calls of the given type.
SentToWorker(type) ==
  { i \in 1..Len(log) : log[i].call = "wb.messageSW" /\ log[i].type = type }

\* The values the given dimension was set to, in order.
IsSetOf(dimension, e) == e.call = "ga-set" /\ e.dimension = dimension

RECURSIVE SetsOf(_, _)
SetsOf(dimension, l) ==
  IF l = <<>> THEN <<>>
  ELSE (IF IsSetOf(dimension, Head(l)) THEN <<Head(l).value>> ELSE <<>>)
         \o SetsOf(dimension, Tail(l))

\* A metadata object whose version string has a numeric major version.
KnownMajor(meta) ==
  /\ meta.kind = "object"
  /\ meta.version.kind = "string"
  /\ meta.version.chars # <<>>
  /\ ToNumber(FirstSegment(meta.version.chars)).kind = "number"

MajorOf(meta) == ToNumber(FirstSegment(meta.version.chars)).n

BothMajorsKnown(payload) ==
  /\ payload.kind = "object"
  /\ KnownMajor(payload.oldMetadata)
  /\ KnownMajor(payload.newMetadata)

MajorIncrease(payload) ==
  /\ BothMajorsKnown(payload)
  /\ MajorOf(payload.newMetadata) > MajorOf(payload.oldMetadata)

NoMajorIncrease(payload) ==
  /\ BothMajorsKnown(payload)
  /\ MajorOf(payload.newMetadata) <= MajorOf(payload.oldMetadata)

Prompted(k) == AddsOf(k) # {} \/ EventsOf(k, "sw-update-notify") # {}

\* C1: on a page that was not controlled at load, no UPDATE_AVAILABLE
\* message, whatever its payload, leads to a messages.add call or to a
\* 'sw-update-notify' event.
C1_UncontrolledNeverPrompts ==
  ~Controlled => \A k \in Messages : ~Prompted(k)

\* Reached: an uncontrolled page has handled a major version increase and a
\* malformed payload.
C1_Witness ==
  /\ ~Controlled
  /\ \E k \in Messages : MajorIncrease(inbox[k].payload)
  /\ \E k \in Messages : inbox[k].payload \in MalformedPayloads

\* C2: on a controlled page, a message whose old and new versions both have
\* a numeric major version with newMajor <= oldMajor (major version 0
\* included) leads to no notification and no 'sw-update-notify' event.
C2_NoMajorIncreaseSuppressed ==
  Controlled =>
    \A k \in Messages : NoMajorIncrease(inbox[k].payload) => ~Prompted(k)

\* C3: on a controlled page, a malformed UPDATE_AVAILABLE message is never
\* suppressed: a notification is shown and 'sw-update-notify' is sent.
C3_MalformedStillPrompts ==
  Controlled =>
    \A k \in Messages :
      inbox[k].payload \in MalformedPayloads =>
        AddsOf(k) # {} /\ EventsOf(k, "sw-update-notify") # {}

\* Reached: a controlled page has handled a payload without newMetadata and
\* one whose version is not a string.
C3_Witness ==
  /\ Controlled
  /\ \E k \in Messages : /\ inbox[k].payload.kind = "object"
                         /\ inbox[k].payload.newMetadata = NoObject
  /\ \E k \in Messages : /\ inbox[k].payload.kind = "object"
                         /\ inbox[k].payload.newMetadata.version = Num(5)

\* C4: every UPDATE_AVAILABLE message has exactly one 'sw-update' event in
\* the log, and it precedes the messages.add call and the
\* 'sw-update-notify' event of the same message.
C4_OneUpdateEventFirst ==
  \A k \in Messages :
    /\ Cardinality(EventsOf(k, "sw-update")) = 1
    /\ \A i \in EventsOf(k, "sw-update") :
         \A j \in AddsOf(k) \cup EventsOf(k, "sw-update-notify") : i < j

\* Reached: one message was reported and prompted, another only reported.
C4_Witness ==
  /\ \E k \in Messages : Prompted(k)
  /\ \E k \in Messages : ~Prompted(k) /\ EventsOf(k, "sw-update") # {}

NotesOf(k, state) ==
  { i \in 1..Len(notes) : notes[i].msg = k /\ notes[i].state = state }

\* C5: for every message the 'sw-update-notify' events and the messages.add
\* calls are equally many and at most one; a major version increase on a
\* controlled page has one of each; a notification acted on has sent
\* 'sw-update-reload' once and scheduled the reload, one dismissed has sent
\* 'sw-update-dismiss' once, and no other such events exist.
C5_NotifyIffShown ==
  \A k \in Messages :
    /\ Cardinality(AddsOf(k)) = Cardinality(EventsOf(k, "sw-update-notify"))
    /\ Cardinality(AddsOf(k)) <= 1
    /\ (Controlled /\ MajorIncrease(inbox[k].payload)) => Cardinality(AddsOf(k)) = 1
    /\ Cardinality(EventsOf(k, "sw-update-reload")) = Cardinality(NotesOf(k, "acted"))
    /\ Cardinality(EventsOf(k, "sw-update-dismiss")) = Cardinality(NotesOf(k, "dismissed"))
    /\ NotesOf(k, "acted") # {} => (reloadTimers > 0 \/ unloaded)

\* Reached: after a major version increase on a controlled page one prompt
\* was acted on and the page reloaded, another prompt was dismissed.
C5_Witness ==
  /\ Controlled
  /\ unloaded
  /\ \E k \in Messages : MajorIncrease(inbox[k].payload) /\ NotesOf(k, "acted") # {}
  /\ \E k \in Messages : NotesOf(k, "dismissed") # {}

CacheUrlsOf(i) == log[i].urlsToCache

FirstInstalls == { n \in 1..Len(installs) : ~installs[n] }

\* C6: the CACHE_URLS messages sent are exactly as many as the 'installed'
\* events with isUpdate false (so an event with isUpdate true sends none),
\* and each lists the page URL first and then the URL of every
\* resource-timing entry, in order.
C6_CacheUrlsOnFirstInstallOnly ==
  /\ Cardinality(SentToWorker("CACHE_URLS")) = Cardinality(FirstInstalls)
  /\ \A i \in SentToWorker("CACHE_URLS") :
       /\ Len(CacheUrlsOf(i)) = 1 + Len(resources)
       /\ CacheUrlsOf(i)[1].url = href
       /\ \A n \in 1..Len(resources) : CacheUrlsOf(i)[n + 1].url = resources[n]

\* Reached: a page with resources has seen a first install and an update.
C6_Witness ==
  /\ resources # <<>>
  /\ \E n \in 1..Len(installs) : installs[n]
  /\ \E n \in 1..Len(installs) : ~installs[n]
  /\ SentToWorker("CACHE_URLS") # {}

SiteVersionSets == SetsOf("SITE_VERSION", log)

CacheHitSets == SetsOf("CACHE_HIT", log)

\* What the first arrival for the site-version promise stands for: the
\* timer's sentinel, or the version the worker replied.
FirstSiteVersion ==
  IF siteVersion.events[1] = Undefined THEN NULL_VALUE ELSE siteVersion.events[1]

\* C7: the site-version dimension is set at most once, and once the reply or
\* the timer has arrived it has been set exactly once: to the sentinel if
\* the timer was first, to the replied version if the reply was first.
C7_SiteVersionFirstArrivalWins ==
  /\ Len(SiteVersionSets) <= 1
  /\ siteVersion.events # <<>> => SiteVersionSets = <<FirstSiteVersion>>

\* C8: on a page that was not controlled at load no GET_METADATA message is
\* sent to the worker, and the site-version dimension is the sentinel as
\* soon as the lookup has started.
C8_UncontrolledSkipsLookup ==
  ~Controlled =>
    /\ SentToWorker("GET_METADATA") = {}
    /\ pc = "registered" => SiteVersionSets = <<NULL_VALUE>>

\* C9: the cache-hit dimension is set once the lookup has an answer and
\* never again: 'false' from the start on an uncontrolled page; otherwise
\* the string of the first arrival, the cacheHit of a NAVIGATION_REPORT or
\* the timer's sentinel. Later reports and the later timer change nothing.
C9_CacheHitFirstArrivalWins ==
  CacheHitSets =
    IF pc # "registered" THEN <<>>
    ELSE IF ~Controlled THEN <<Str(<<"f", "a", "l", "s", "e">>)>>
    ELSE IF cacheHit.events = <<>> THEN <<>>
    ELSE <<Str(ToStringChars(cacheHit.events[1]))>>

\* Reached: on a controlled page a report with cacheHit true arrived first,
\* then the timer fired and a report with cacheHit false arrived.
C9_Witness ==
  /\ Controlled
  /\ Len(cacheHit.events) = 3
  /\ cacheHit.events[1] = Bool(TRUE)
  /\ cacheHit.timer = "fired"
  /\ \E n \in 2..3 : cacheHit.events[n] = Bool(FALSE)

LiveNotes == { i \in 1..Len(notes) : notes[i].state = "live" }

\* C10: at most one NotificationRequest of the update handler is live.
C10_AtMostOneLive == Cardinality(LiveNotes) <= 1

\* C10 as amended: every UPDATE_AVAILABLE message creates at most one
\* NotificationRequest, and none on an uncontrolled page; the live requests
\* are never more than the messages handled.
C10_OneRequestPerMessage ==
  /\ \A k \in Messages :
       /\ Cardinality({ i \in 1..Len(notes) : notes[i].msg = k }) <= 1
       /\ Cardinality({ i \in 1..Len(notes) : notes[i].msg = k })
            = Cardinality(AddsOf(k))
       /\ AddsOf(k) # {} => Controlled
  /\ Cardinality(LiveNotes) <= Len(inbox)

\* Reached: two requests of two messages are live together.
C10_Witness ==
  /\ Cardinality(LiveNotes) = 2
  /\ \E i, j \in LiveNotes : notes[i].msg # notes[j].msg

(* ---------------------- processMetadata on its own -------------------- *)
\* metadata.version values: strings with one- and two-digit major versions,
\* the empty and a non-numeric string, absent, and a number.
MetadataVersions ==
  { VersionOf(m) : m \in 0..MaxMajor }
    \cup { Str(<<"3", ".", "2", ".", "1">>), Str(<<"3", ".", "5", ".", "0">>),
           Str(<<"5", ".", "0", ".", "0">>), Str(<<"1", "0", ".", "0">>),
           Str(<<>>), Str(<<"a", "b", "c">>), Undefined, Num(5) }

MetadataInputs ==
  { Payload(o, n) :
      o \in { Metadata(v, Num(0)) : v \in MetadataVersions } \cup {NoObject},
      n \in { Metadata(v, b) : v \in MetadataVersions,
                               b \in {Num(0), Num(MaxNow), Undefined} }
              \cup {NoObject} }
    \cup {NoPayload}

\* One call processMetadata(payload), Date.now() reading `now`.
ProcessMetadataCall(payload, now) ==
  /\ inbox = <<>>
  /\ inbox' = <<[payload |-> payload, now |-> now,
                 result |-> processMetadata(payload, now)]>>
  /\ UNCHANGED <<pc, listeners, log, notes, reloadTimers, unloaded>>
  /\ UNCHANGED <<lookupVars, installVars, pageVars>>

NextMetadata ==
  \E payload \in MetadataInputs, now \in Nows : ProcessMetadataCall(payload, now)

SpecMetadata == InitBare /\ [][NextMetadata]_vars

\* A payload without oldMetadata or without newMetadata, or no payload.
MissingMetadata(payload) ==
  \/ payload.kind # "object"
  \/ payload.oldMetadata.kind # "object"
  \/ payload.newMetadata.kind # "object"

\* A payload with both metadata objects, each with a string version.
StringVersions(payload) ==
  /\ ~MissingMetadata(payload)
  /\ payload.oldMetadata.version.kind = "string"
  /\ payload.newMetadata.version.kind = "string"

\* The number a version string's first dot-delimited segment parses to, for
\* the version strings written out in the claim and the specification.
MajorExample(version, major) ==
  \A k \in Messages :
    /\ (StringVersions(inbox[k].payload)
          /\ inbox[k].payload.oldMetadata.version = Str(version))
         => inbox[k].result.oldMajorVersion = major
    /\ (StringVersions(inbox[k].payload)
          /\ inbox[k].payload.newMetadata.version = Str(version))
         => inbox[k].result.newMajorVersion = major

\* C11: processMetadata returns for every payload. Without oldMetadata or
\* newMetadata (or without payload) the result is the error object, whose
\* five version fields read as undefined; with both present and string
\* versions it is the five fields, each major version the number of the
\* version's first dot-delimited segment ('3.2.1' gives 3).
C11_ProcessMetadataTotal ==
  /\ \A k \in Messages :
       LET p == inbox[k].payload
           r == inbox[k].result
       IN /\ MissingMetadata(p) =>
               /\ r.error
               /\ r.oldVersion = Undefined /\ r.oldMajorVersion = Undefined
               /\ r.newVersion = Undefined /\ r.newMajorVersion = Undefined
               /\ r.timeSinceNewVersionDeployed = Undefined
          /\ StringVersions(p) =>
               /\ ~r.error
               /\ r.oldVersion = p.oldMetadata.version
               /\ r.newVersion = p.newMetadata.version
               /\ r.oldMajorVersion = ToNumber(FirstSegment(p.oldMetadata.version.chars))
               /\ r.newMajorVersion = ToNumber(FirstSegment(p.newMetadata.version.chars))
               /\ r.timeSinceNewVersionDeployed \in
                    {NaN} \cup { Num(t) : t \in 0..MaxNow }
  /\ MajorExample(<<"3", ".", "2", ".", "1">>, Num(3))
  /\ MajorExample(<<"5", ".", "0", ".", "0">>, Num(5))
  /\ MajorExample(<<"1", "0", ".", "0">>, Num(10))
  /\ MajorExample(<<"a", "b", "c">>, NaN)
  /\ MajorExample(<<>>, Num(0))

\* Reached: processMetadata was called with oldMetadata but no newMetadata.
C11_Witness ==
  \E k \in Messages :
    /\ inbox[k].payload.kind = "object"
    /\ inbox[k].payload.oldMetadata.version = Str(<<"3", ".", "2", ".", "1">>)
    /\ inbox[k].payload.newMetadata = NoObject
    /\ inbox[k].result.error

(* ------------------------ telemetry of the handler -------------------- *)
\* The payload was read without an error: both metadata objects are there
\* and each version is a string or absent.
Parsed(payload) ==
  /\ ~MissingMetadata(payload)
  /\ payload.oldMetadata.version.kind \in {"string", "undefined"}
  /\ payload.newMetadata.version.kind \in {"string", "undefined"}

OldVersionAvailable(payload) ==
  /\ Parsed(payload)
  /\ payload.oldMetadata.version.kind = "string"
  /\ payload.oldMetadata.version.chars # <<>>

NewVersionAvailable(payload) ==
  /\ Parsed(payload)
  /\ payload.newMetadata.version.kind = "string"
  /\ payload.newMetadata.version.chars # <<>>

Arrow == <<" ", "=", ">", " ">>

\* The time since the new version was built, 0 if it is not known.
ExpectedValue(m) ==
  IF Parsed(m.payload) /\ m.payload.newMetadata.buildTime.kind = "number"
  THEN Num(m.now - m.payload.newMetadata.buildTime.n)
  ELSE Num(0)

\* 'old => new', or the sentinel alone when a version string is unavailable.
LabelSentinelAlone(payload) ==
  IF OldVersionAvailable(payload) /\ NewVersionAvailable(payload)
  THEN Str(payload.oldMetadata.version.chars \o Arrow
             \o payload.newMetadata.version.chars)
  ELSE NULL_VALUE

\* 'old => new', the sentinel in the place of an unavailable old version,
\* the sentinel alone when the new version string is unavailable.
LabelSentinelForOld(payload) ==
  IF NewVersionAvailable(payload)
  THEN Str((IF OldVersionAvailable(payload)
            THEN payload.oldMetadata.version.chars ELSE NULL_VALUE.chars)
             \o Arrow \o payload.newMetadata.version.chars)
  ELSE NULL_VALUE

HandlerActions ==
  {"sw-update", "sw-update-notify", "sw-update-reload", "sw-update-dismiss"}

HandlerEvents ==
  { i \in 1..Len(log) : /\ log[i].call = "ga-send"
                        /\ log[i].eventAction \in HandlerActions }

\* C12: every event of the UPDATE_AVAILABLE handler has as value the time
\* since the new version was built, or 0, and as label 'old => new', or the
\* sentinel alone when the old or the new version string is unavailable.
C12_LabelSentinelAlone ==
  \A i \in HandlerEvents :
    /\ log[i].msg \in Messages
    /\ log[i].eventValue = ExpectedValue(inbox[log[i].msg])
    /\ log[i].eventLabel = LabelSentinelAlone(inbox[log[i].msg].payload)

\* C12 as amended: the value is as claimed; the label is 'old => new',
\* '(not set) => new' when only the old version string is unavailable, and
\* the sentinel alone when the new version string is unavailable.
C12_LabelSentinelForOld ==
  \A i \in HandlerEvents :
    /\ log[i].msg \in Messages
    /\ log[i].eventValue = ExpectedValue(inbox[log[i].msg])
    /\ log[i].eventLabel = LabelSentinelForOld(inbox[log[i].msg].payload)

\* Reached: all four events were sent, among them the events of a message
\* whose old version string is empty and the events of a message whose
\* payload could not be read.
C12_Witness ==
  /\ \A a \in HandlerActions : \E i \in HandlerEvents : log[i].eventAction = a
  /\ \E k \in Messages : /\ NewVersionAvailable(inbox[k].payload)
                         /\ ~OldVersionAvailable(inbox[k].payload)
  /\ \E k \in Messages : ~Parsed(inbox[k].payload)

(* ------------------------- init and registration ---------------------- *)
\* A timer that was set fires as long as the page lives.
SpecLookupFair ==
  SpecLookup /\ WF_vars(SiteVersionTimeout) /\ WF_vars(CacheHitTimeout)

InitListenersAttached ==
  {"installed", "cache-updated", "update-available"} \subseteq listeners

LookupsStarted ==
  /\ siteVersion.timer # "unset"
  /\ cacheHit.timer # "unset"
  /\ "navigation-report" \in listeners

ReportsDuring(position) ==
  { n \in 1..Len(navReports) : navReports[n].during = position }

ReportsObserved ==
  { i \in 1..Len(cacheHit.events) : cacheHit.events[i].kind = "boolean" }

BothDimensionsSet == Len(SiteVersionSets) = 1 /\ Len(CacheHitSets) = 1

\* C13: the three listeners are attached before registration starts, and
\* the two lookups are started without waiting for registration to
\* complete, so that a NAVIGATION_REPORT delivered while registration is
\* pending is observed.
C13_LookupsConcurrentWithRegistration ==
  /\ pc # "idle" => InitListenersAttached
  /\ pc = "registering" => LookupsStarted
  /\ Cardinality(ReportsObserved) = Len(navReports)

\* What holds of every state: the listeners are attached when registration
\* starts; the lookups are started when, and only when, registration has
\* completed; before that nothing is asked of the worker, no dimension is
\* set, and a NAVIGATION_REPORT is not observed.
LookupsWaitForRegistration ==
  /\ pc # "idle" => InitListenersAttached
  /\ pc = "idle" => listeners = {}
  /\ (siteVersion.timer # "unset") <=> pc = "registered"
  /\ (cacheHit.timer # "unset") <=> pc = "registered"
  /\ "navigation-report" \in listeners <=> pc = "registered"
  /\ pc # "registered" =>
       /\ SiteVersionSets = <<>> /\ CacheHitSets = <<>>
       /\ SentToWorker("GET_METADATA") = {}
  /\ Cardinality(ReportsObserved) = Cardinality(ReportsDuring("registered"))

\* C13 as amended: the three listeners are attached before registration
\* starts; the two lookups start only once registration has completed, so
\* a NAVIGATION_REPORT delivered while registration is pending is not
\* observed and no dimension is set while registration is pending or after
\* it failed; once registration has completed, both dimensions are
\* eventually set.
C13_LookupsAfterRegistration ==
  /\ []LookupsWaitForRegistration
  /\ (pc = "registered") ~> BothDimensionsSet

\* Reached: on a controlled page a NAVIGATION_REPORT with cacheHit true was
\* delivered while registration was pending, registration completed, and
\* the cache-hit dimension was set to the timer's sentinel.
C13_Witness ==
  /\ Controlled
  /\ pc = "registered"
  /\ \E n \in ReportsDuring("registering") : navReports[n].cacheHit
  /\ ReportsObserved = {}
  /\ CacheHitSets = <<NULL_VALUE>>
  /\ BothDimensionsSet

====
